---- MODULE Spec2Model ----
(***************************************************************************)
(* Model of app/src/main/cpp/opus_jni.cpp: the JNI bridge around libopus.  *)
(*                                                                         *)
(* The bridge has four entry points (nativeCreateEncoder, nativeEncode,    *)
(* nativeDecode, nativeDestroyEncoder).  Each is a synchronous call, so    *)
(* each is one action.  The state is the native heap of encoders, the      *)
(* number of live decoders, the number of pinned managed arrays, and a     *)
(* record `last` of what the most recent call did and returned.            *)
(*                                                                         *)
(* libopus and the JNI runtime are the environment.  Their results are     *)
(* inputs of the actions, constrained by their documented contracts        *)
(* (opus.h, the JNI specification).  Sample values are never inspected by  *)
(* the bridge, so a PCM array is represented by its length.  A byte array  *)
(* is a byte sequence in run-length form: a sequence of runs [v, k], each  *)
(* standing for k > 0 copies of the byte v.                                *)
(***************************************************************************)
EXTENDS Integers, Sequences, FiniteSets, TLC

VARIABLES heap, owned, stale, doubleFree, decoders, pinned, crashed, last

vars == <<heap, owned, stale, doubleFree, decoders, pinned, crashed, last>>

\* ---------------------------------------------------------------- bounds
\* Number of native heap addresses an encoder can be allocated at.
MaxAddr == 2

Addrs == 1..MaxAddr

\* ------------------------------------------------------ program constants
maxDataBytes == 1276

maxSamples == 960 * 6

\* libopus error codes used by the bridge (opus_defines.h).
OPUS_OK == 0

OPUS_BAD_ARG == 0 - 1

OPUS_BUFFER_TOO_SMALL == 0 - 2

OPUS_INTERNAL_ERROR == 0 - 3

OPUS_INVALID_PACKET == 0 - 4

OPUS_ALLOC_FAIL == 0 - 7

\* ------------------------------------------------------------ input sets
\* Sampling rates libopus supports that the caller uses.
SupportedRates == {8000, 48000}

SupportedChannels == {1, 2}

\* (sampleRate, channels) the caller creates encoders with: the supported
\* pairs at 48 kHz, a rate and a channel count that libopus rejects.
CreateParams ==
    ({48000} \X SupportedChannels) \cup {<<44100, 1>>, <<48000, 3>>}

\* Bitrates: 0 = "codec default", a positive one that is applied.
Bitrates == {0, 16000}

\* PCM array lengths the caller passes to encode: an empty frame, a length
\* that is no legal frame duration, and 20 ms of mono and of stereo at 48 kHz.
PcmLens == {0, 100, 960, 1920}

\* Results libopus can report from opus_encode besides OPUS_BAD_ARG.
EncodeResults == {OPUS_INTERNAL_ERROR, 3, maxDataBytes}

\* ------------------------------------------------------- byte sequences
Run(v, k) == [v |-> v, k |-> k]

\* k copies of v; no run when k is not positive.
Fill(v, k) == IF k > 0 THEN <<Run(v, k)>> ELSE <<>>

RECURSIVE ByteLen(_)
ByteLen(runs) ==
    IF runs = <<>> THEN 0 ELSE Head(runs).k + ByteLen(Tail(runs))

\* The first n bytes of a byte sequence.
RECURSIVE Take(_, _)
Take(runs, n) ==
    IF n <= 0 \/ runs = <<>> THEN <<>>
    ELSE IF Head(runs).k >= n THEN <<Run(Head(runs).v, n)>>
    ELSE <<Head(runs)>> \o Take(Tail(runs), n - Head(runs).k)

FirstByte(runs) == Head(runs).v

\* ---------------------------------------------------------- managed arrays
NullBytes == [isNull |-> TRUE, elems |-> <<>>]

ByteArray(s) == [isNull |-> FALSE, elems |-> s]

NullShorts == [isNull |-> TRUE, len |-> 0]

ShortArray(n) == [isNull |-> FALSE, len |-> n]

\* ------------------------------------------------------------ libopus
\* Frame durations in units of 2.5 ms that opus_encode accepts
\* (2.5, 5, 10, 20, 40, 60 ms).
LegalDurations == {1, 2, 4, 8, 16, 24}

\* Longest duration one packet can carry: 6 frames of 20 ms, in units of
\* 2.5 ms.
MaxPacketDuration == 6 * 8

LegalFrameSize(frame_size, Fs) ==
    \E d \in LegalDurations : frame_size * 400 = d * Fs

DurationOf(frame_size, Fs) == (frame_size * 400) \div Fs

\* First byte of a packet: frame duration and the stereo flag.
TOC(dur, channels) == dur * 2 + (channels - 1)

TocDuration(toc) == toc \div 2

\* The bytes opus_encode writes for a packet of n bytes.
PacketBytes(toc, n) == Fill(toc, 1) \o Fill(255, n - 1)

freeSlot == [st |-> "free", Fs |-> 0, channels |-> 0]

Live == {a \in Addrs : heap[a].st = "live"}

Init ==
    /\ heap = [a \in Addrs |-> freeSlot]
    /\ owned = {}
    /\ stale = {}
    /\ doubleFree = FALSE
    /\ decoders = 0
    /\ pinned = 0
    /\ crashed = FALSE
    /\ last = [op |-> "none"]

\* ------------------------------------------------- encoder lifecycle
\* opus_encoder_create: rejects unsupported arguments, may fail to allocate,
\* and returns NULL whenever it reports an error.
opus_encoder_create(a, Fs, channels, allocOk) ==
    IF Fs \notin SupportedRates \/ channels \notin SupportedChannels
    THEN [enc |-> 0, error |-> OPUS_BAD_ARG]
    ELSE IF ~allocOk
    THEN [enc |-> 0, error |-> OPUS_ALLOC_FAIL]
    ELSE [enc |-> a, error |-> OPUS_OK]

\* opus_encoder_destroy: frees the encoder state at address a.
opus_encoder_destroy(h, a) == [h EXCEPT ![a] = freeSlot]

\* BitrateStep with the encoder left alive when the ctl fails.
BitrateStepLeaks(bitrate, ctlRet) ==
    IF bitrate > 0 /\ ctlRet # OPUS_OK
    THEN [destroy |-> FALSE, fail |-> TRUE]
    ELSE [destroy |-> FALSE, fail |-> FALSE]

\* The bitrate step of creation: a requested bitrate whose ctl fails makes
\* the bridge destroy the encoder and fail the creation.
BitrateStep(bitrate, ctlRet) ==
    IF bitrate > 0 /\ ctlRet # OPUS_OK
    THEN [destroy |-> TRUE, fail |-> TRUE]
    ELSE [destroy |-> FALSE, fail |-> FALSE]

\* create_encoder.  The settings applied after the bitrate (signal, VBR, DTX,
\* complexity) and the logging ignore their results and change nothing the
\* bridge observes, so they have no effect here.
nativeCreateEncoder(a, sampleRate, channels, bitrate, allocOk, ctlRet) ==
    /\ ~crashed
    /\ heap[a].st = "free"
    /\ LET c == opus_encoder_create(a, sampleRate, channels, allocOk)
           created == c.error = OPUS_OK
           b == BitrateStep(bitrate, ctlRet)
           h1 == IF created
                 THEN [heap EXCEPT ![a] = [st |-> "live", Fs |-> sampleRate,
                                           channels |-> channels]]
                 ELSE heap
           h2 == IF created /\ b.destroy THEN opus_encoder_destroy(h1, a) ELSE h1
           ret == IF ~created \/ b.fail THEN 0 ELSE c.enc
       IN /\ heap' = h2
          /\ owned' = IF ret # 0 THEN owned \cup {ret} ELSE owned
          /\ stale' = stale \ {ret}
          /\ last' = [op |-> "create",
                      created |-> created,
                      ctlFailed |-> created /\ bitrate > 0 /\ ctlRet # OPUS_OK,
                      addr |-> IF created THEN a ELSE 0,
                      ret |-> ret]
    /\ UNCHANGED <<doubleFree, decoders, pinned, crashed>>

\* DestroyEncoderHeap without the call of opus_encoder_destroy.
DestroyEncoderHeapSkips(h, encPtr) == h

\* The heap after destroy_encoder on a handle that designates a live encoder
\* or is zero: a zero handle destroys nothing.
DestroyEncoderHeap(h, encPtr) ==
    IF encPtr # 0 THEN opus_encoder_destroy(h, encPtr) ELSE h

\* A non-zero handle whose encoder was already freed is a double free:
\* the process may abort (fault) or carry on; doubleFree records that the
\* caller broke the single-ownership contract.
nativeDestroyEncoder(encPtr, fault) ==
    /\ ~crashed
    /\ encPtr \in {0} \cup owned \cup stale
    /\ LET dangling == encPtr # 0 /\ heap[encPtr].st # "live"
           h2 == IF dangling THEN heap ELSE DestroyEncoderHeap(heap, encPtr)
       IN /\ heap' = h2
          /\ owned' = owned \ {encPtr}
          /\ stale' = IF encPtr # 0 THEN stale \cup {encPtr} ELSE stale
          /\ doubleFree' = (doubleFree \/ dangling)
          /\ crashed' = (dangling /\ fault)
          /\ last' = [op |-> "destroy",
                      encPtr |-> encPtr,
                      dangling |-> dangling,
                      returned |-> ~(dangling /\ fault)]
    /\ UNCHANGED <<decoders, pinned>>

\* ------------------------------------------------------------ encode
\* Encoder configurations a freed encoder's memory may appear to hold.
EncoderConfigs ==
    {[st |-> "live", Fs |-> 48000, channels |-> c] : c \in SupportedChannels}

\* Outcomes of pinning a managed array: a pointer to its elements, or NULL.
PinOutcomes == {"ok", "null"}

\* The std::vector the codec writes into: max_data_bytes zero bytes,
\* overwritten from the front by the packet.
OutBuffer(bytes) == bytes \o Fill(0, maxDataBytes - ByteLen(bytes))

\* opus_encode on encoder state st.  An illegal frame_size is rejected
\* before any sample is read.  Otherwise frame_size * channels samples are
\* read from a buffer holding `avail` samples; reading past its end is an
\* out-of-bounds read, which may fault or go unnoticed.
opus_encode(st, frame_size, avail, max_data_bytes, res, fault) ==
    IF ~LegalFrameSize(frame_size, st.Fs)
    THEN [ret |-> OPUS_BAD_ARG, read |-> 0, crash |-> FALSE, bytes |-> <<>>]
    ELSE LET need == frame_size * st.channels
         IN IF need > avail /\ fault
            THEN [ret |-> 0, read |-> need, crash |-> TRUE, bytes |-> <<>>]
            ELSE IF res > max_data_bytes
            THEN [ret |-> OPUS_BUFFER_TOO_SMALL, read |-> need,
                  crash |-> FALSE, bytes |-> <<>>]
            ELSE IF res <= 0
            THEN [ret |-> res, read |-> need, crash |-> FALSE, bytes |-> <<>>]
            ELSE [ret |-> res, read |-> need, crash |-> FALSE,
                  bytes |-> PacketBytes(
                      TOC(DurationOf(frame_size, st.Fs), st.channels), res)]

\* EncodeHandleIsNull without the check.
EncodeHandleUnchecked(encPtr) == FALSE

\* The null check on the handle.
EncodeHandleIsNull(encPtr) == encPtr = 0

\* The frame_size handed to opus_encode: the array length.
EncodeFrameSize(len) == len

\* EncodeResultBytes copying the whole buffer.
EncodeResultWholeBuffer(out, encoded) == out

\* The bytes copied into the result array: the first `encoded` of the buffer.
EncodeResultBytes(out, encoded) == Take(out, encoded)

encodeIdle ==
    [codecCalled |-> FALSE, frameSize |-> 0, read |-> 0, encoded |-> 0,
     pins |-> 0, releases |-> 0, excPending |-> FALSE, wroteNull |-> FALSE,
     newFailed |-> FALSE, returned |-> TRUE, out |-> <<>>, ret |-> NullBytes]

\* What one encode call does.  st is the encoder state the handle designates
\* (for a freed encoder, whatever its memory now holds).
EncodeCall(encPtr, dangling, st, len, pin, res, fault, newOk, abort) ==
    IF EncodeHandleIsNull(encPtr) THEN encodeIdle
    ELSE IF len <= 0 THEN encodeIdle
    ELSE IF pin # "ok" THEN encodeIdle
    ELSE
      LET fs == EncodeFrameSize(len)
          r == IF dangling /\ fault
               THEN [ret |-> 0, read |-> 0, crash |-> TRUE, bytes |-> <<>>]
               ELSE opus_encode(st, fs, len, maxDataBytes, res, fault)
          called == [encodeIdle EXCEPT !.codecCalled = TRUE, !.frameSize = fs,
                                       !.read = r.read, !.encoded = r.ret,
                                       !.out = OutBuffer(r.bytes), !.pins = 1]
      IN IF r.crash THEN [called EXCEPT !.returned = FALSE]
         ELSE
           LET released == [called EXCEPT !.releases = 1]
           IN IF r.ret <= 0 THEN released
              ELSE IF ~newOk
              THEN [released EXCEPT !.newFailed = TRUE, !.excPending = TRUE,
                                    !.wroteNull = TRUE, !.returned = ~abort]
              ELSE [released EXCEPT
                       !.ret = ByteArray(EncodeResultBytes(called.out, r.ret))]

nativeEncode(encPtr, st0, len, pin, res, fault, newOk, abort) ==
    /\ ~crashed
    /\ encPtr \in {0} \cup owned \cup stale
    /\ LET dangling == encPtr # 0 /\ heap[encPtr].st # "live"
           st == IF encPtr # 0 /\ ~dangling THEN heap[encPtr] ELSE st0
       IN \E c \in {EncodeCall(encPtr, dangling, st, len, pin, res, fault,
                               newOk, abort)} :
          /\ pinned' = pinned + c.pins - c.releases
          /\ crashed' = ~c.returned
          /\ last' = [op |-> "encode", nullHandle |-> (encPtr = 0),
                      dangling |-> dangling,
                      len |-> len, pin |-> pin,
                      Fs |-> IF c.codecCalled /\ ~dangling THEN st.Fs ELSE 0,
                      channels |-> IF c.codecCalled /\ ~dangling
                                   THEN st.channels ELSE 0,
                      call |-> c]
    /\ UNCHANGED <<heap, owned, stale, doubleFree, decoders>>

\* ------------------------------------------------------------ decode
\* opus_decoder_create: NULL with an error for unsupported arguments or when
\* allocation fails.
opus_decoder_create(Fs, channels, allocOk) ==
    IF Fs \notin SupportedRates \/ channels \notin SupportedChannels
    THEN [dec |-> 0, err |-> OPUS_BAD_ARG]
    ELSE IF ~allocOk
    THEN [dec |-> 0, err |-> OPUS_ALLOC_FAIL]
    ELSE [dec |-> 1, err |-> OPUS_OK]

\* opus_decode: the number of samples per channel the packet holds at the
\* decoder's rate, or an error for a malformed packet or one that does not
\* fit in frame_size samples per channel.
opus_decode(Fs, data, frame_size) ==
    LET dur == TocDuration(FirstByte(data))
        samples == (dur * Fs) \div 400
    IN IF dur < 1 \/ dur > MaxPacketDuration THEN OPUS_INVALID_PACKET
       ELSE IF samples > frame_size THEN OPUS_BUFFER_TOO_SMALL
       ELSE samples

\* Packets that reach decode from elsewhere than this bridge's encoder:
\* no array, an empty array, garbage, and a 120 ms packet.
ExternalPackets ==
    {NullBytes, ByteArray(<<>>), ByteArray(Fill(0, 1)),
     ByteArray(PacketBytes(TOC(MaxPacketDuration, 2), 3))}

noSource == [fromEncode |-> FALSE, len |-> 0, Fs |-> 0, channels |-> 0]

\* DecodeCleanup that forgets the decoder.
DecodeCleanupLeaksDecoder(decCreated) == [releases |-> 1, destroyed |-> 0]

\* DecodeCleanup that releases the packet only on the path that decoded.
DecodeCleanupKeepsPin(decCreated) ==
    [releases |-> IF decCreated THEN 1 ELSE 0,
     destroyed |-> IF decCreated THEN 1 ELSE 0]

\* Cleanup once the packet is pinned: the pinned bytes are released, and the
\* decoder, if one was created, is destroyed.
DecodeCleanup(decCreated) ==
    [releases |-> 1, destroyed |-> IF decCreated THEN 1 ELSE 0]

\* DecodeTotalSamples sized to the scratch buffer.
DecodeTotalSamplesScratch(decodedSamples, channels) == maxSamples * channels

\* Size of the result array.
DecodeTotalSamples(decodedSamples, channels) == decodedSamples * channels

decodeIdle ==
    [pins |-> 0, releases |-> 0, created |-> 0, destroyed |-> 0,
     decFailed |-> FALSE, codecCalled |-> FALSE, decoded |-> 0,
     scratch |-> 0, newFailed |-> FALSE, excPending |-> FALSE,
     wroteNull |-> FALSE, returned |-> TRUE, ret |-> NullShorts]

DecodeCall(opusData, sampleRate, channels, pin, allocOk, newOk) ==
    IF opusData.isNull THEN decodeIdle
    ELSE IF ByteLen(opusData.elems) <= 0 THEN decodeIdle
    ELSE IF pin # "ok" THEN decodeIdle
    ELSE
      LET d == opus_decoder_create(sampleRate, channels, allocOk)
          pinnedCall == [decodeIdle EXCEPT !.pins = 1]
      IN IF d.err # OPUS_OK \/ d.dec = 0
         THEN LET k == DecodeCleanup(FALSE)
              IN [pinnedCall EXCEPT !.decFailed = TRUE, !.releases = k.releases,
                                    !.destroyed = k.destroyed]
         ELSE
           LET decodedSamples == opus_decode(sampleRate, opusData.elems, maxSamples)
               k == DecodeCleanup(TRUE)
               done == [pinnedCall EXCEPT !.created = 1, !.codecCalled = TRUE,
                                          !.decoded = decodedSamples,
                                          !.scratch = maxSamples * channels,
                                          !.releases = k.releases,
                                          !.destroyed = k.destroyed]
           IN IF decodedSamples <= 0 THEN done
              ELSE IF ~newOk
              THEN [done EXCEPT !.newFailed = TRUE, !.excPending = TRUE]
              ELSE [done EXCEPT !.ret =
                       ShortArray(DecodeTotalSamples(decodedSamples, channels))]

nativeDecode(opusData, source, sampleRate, channels, pin, allocOk, newOk) ==
    /\ ~crashed
    /\ \E c \in {DecodeCall(opusData, sampleRate, channels, pin, allocOk, newOk)} :
          /\ pinned' = pinned + c.pins - c.releases
          /\ decoders' = decoders + c.created - c.destroyed
          /\ last' = [op |-> "decode", source |-> source,
                      isNull |-> opusData.isNull,
                      inLen |-> ByteLen(opusData.elems),
                      pin |-> pin, Fs |-> sampleRate, channels |-> channels,
                      call |-> c]
    /\ UNCHANGED <<heap, owned, stale, doubleFree, crashed>>

\* The packet the caller holds right after a successful encode on a live
\* encoder, with the frame length and encoder parameters it came from.
EncodedPacketHeld ==
    /\ last.op = "encode"
    /\ last.call.returned
    /\ ~last.call.ret.isNull
    /\ ~last.dangling

\* Decoder parameters the caller passes: the encoders' parameters, another
\* supported rate, an unsupported rate and an unsupported channel count.
DecodeParams ==
    ({48000} \X SupportedChannels)
        \cup {<<8000, 2>>, <<44100, 1>>, <<48000, 3>>}

\* The environment's outcomes <<pin, allocOk, newOk>> that a decode call
\* can observe: the pin fails, the decoder or the result array cannot be
\* allocated, or nothing fails.
DecodeEnv ==
    {<<"null", TRUE, TRUE>>, <<"ok", FALSE, TRUE>>,
     <<"ok", TRUE, FALSE>>, <<"ok", TRUE, TRUE>>}

\* A call without a packet observes no outcome of the environment, so one
\* call stands for all of them.
DecodeExternal ==
    \E p \in ExternalPackets :
        IF p.isNull \/ ByteLen(p.elems) = 0
        THEN nativeDecode(p, noSource, 48000, 1, "ok", TRUE, TRUE)
        ELSE \E sc \in DecodeParams, e \in DecodeEnv :
                nativeDecode(p, noSource, sc[1], sc[2], e[1], e[2], e[3])

DecodeEncoded ==
    /\ EncodedPacketHeld
    /\ \E sc \in DecodeParams, e \in DecodeEnv :
            nativeDecode(last.call.ret,
                         [fromEncode |-> TRUE, len |-> last.len, Fs |-> last.Fs,
                          channels |-> last.channels],
                         sc[1], sc[2], e[1], e[2], e[3])

\* The environment's outcomes <<allocOk, ctlRet>> that a create call can
\* observe: the encoder cannot be allocated, or it can and the bitrate ctl
\* succeeds or fails.
CreateEnv(bitrate) ==
    {<<FALSE, OPUS_OK>>, <<TRUE, OPUS_OK>>}
        \cup (IF bitrate > 0 THEN {<<TRUE, OPUS_BAD_ARG>>} ELSE {})

CreateEncoder ==
    \E a \in Addrs, sc \in CreateParams, br \in Bitrates :
        \E e \in CreateEnv(br) :
            nativeCreateEncoder(a, sc[1], sc[2], br, e[1], e[2])

defaultConfig == [st |-> "live", Fs |-> 48000, channels |-> 1]

\* The environment's outcomes <<st0, pin, res, fault, newOk, abort>> that an
\* encode call can observe: what a freed encoder's memory holds, the pin
\* outcome, the codec's result, whether an invalid memory access faults,
\* whether the result array is allocated and, when it is not, whether the
\* runtime aborts on the write into the null array.
EncodeEnv(encPtr) ==
    LET mem == IF encPtr # 0 /\ heap[encPtr].st # "live"
               THEN EncoderConfigs ELSE {defaultConfig}
    IN {<<defaultConfig, "null", 3, FALSE, TRUE, FALSE>>,
        <<defaultConfig, "ok", 3, TRUE, TRUE, FALSE>>}
       \cup {<<m, "ok", r, FALSE, TRUE, FALSE>> : m \in mem, r \in EncodeResults}
       \cup {<<m, "ok", r, FALSE, FALSE, a>> :
                m \in mem, r \in EncodeResults \ {OPUS_INTERNAL_ERROR},
                a \in BOOLEAN}

\* A call with the zero handle or an empty frame observes no outcome of the
\* environment, so one call stands for all of them.
Encode ==
    \E encPtr \in {0} \cup owned \cup stale, len \in PcmLens :
        IF encPtr = 0 \/ len = 0
        THEN nativeEncode(encPtr, defaultConfig, len, "ok", 3, FALSE, TRUE, FALSE)
        ELSE \E e \in EncodeEnv(encPtr) :
                nativeEncode(encPtr, e[1], len, e[2], e[3], e[4], e[5], e[6])

DestroyEncoder ==
    \E encPtr \in {0} \cup owned \cup stale, fault \in BOOLEAN :
        nativeDestroyEncoder(encPtr, fault)

Next ==
    \/ CreateEncoder
    \/ Encode
    \/ DecodeExternal
    \/ DecodeEncoded
    \/ DestroyEncoder

Spec == Init /\ [][Next]_vars

\* ================================================================ claims
EncodeReturned == last.op = "encode" /\ last.call.returned

\* C1: a create_encoder call with bitrate > 0 whose bitrate ctl fails returns
\* the zero sentinel, and the encoder it allocated is destroyed by the time
\* it returns: nothing live remains at its address and the caller owns no
\* handle to it.
C1_BitrateFailureDestroys ==
    (last.op = "create" /\ last.ctlFailed) =>
        /\ last.ret = 0
        /\ heap[last.addr].st = "free"
        /\ last.addr \notin owned

C1_Witness == last.op = "create" /\ last.ctlFailed /\ last.addr # 0

\* C2 as stated: an encode call whose handle is zero or was already passed
\* to destroy_encoder returns null and never invokes the codec's encode.
C2_DestroyedOrNullHandleFails ==
    (last.op = "encode" /\ (last.nullHandle \/ last.dangling)) =>
        /\ last.call.returned
        /\ last.call.ret.isNull
        /\ ~last.call.codecCalled

\* C2 amended: encode with the zero handle returns null without pinning the
\* frame or invoking the codec; a handle already passed to destroy_encoder is
\* not recognised, and with a non-empty frame that pins the codec's encode is
\* invoked on it.
C2_NullHandleFails ==
    /\ (last.op = "encode" /\ last.nullHandle) =>
          /\ last.call.returned
          /\ last.call.ret.isNull
          /\ ~last.call.codecCalled
          /\ last.call.pins = 0
    /\ (last.op = "encode" /\ last.dangling /\ last.len > 0 /\ last.pin = "ok") =>
          last.call.codecCalled

C2_Witness ==
    /\ last.op = "encode" /\ last.nullHandle /\ last.len > 0
    /\ Live # {}

\* C3: every decoder a decode call creates is destroyed by the time the call
\* returns, on every path; no decoder is live between calls.
C3_NoDecoderLeak ==
    /\ decoders = 0
    /\ last.op = "decode" => last.call.created = last.call.destroyed

C3_Witness ==
    /\ last.op = "decode" /\ last.call.created = 1 /\ last.call.destroyed = 1
    /\ last.call.decoded <= 0 /\ last.call.ret.isNull

\* C4: a frame encoded by an encoder created for (sampleRate, channels) and
\* decoded with the same sampleRate and channels comes back with the sample
\* count of the original frame (when neither call runs out of memory).
C4_RoundTripSampleCount ==
    (/\ last.op = "decode" /\ last.source.fromEncode
     /\ last.Fs = last.source.Fs /\ last.channels = last.source.channels
     /\ last.pin = "ok" /\ ~last.call.decFailed /\ ~last.call.newFailed) =>
        /\ ~last.call.ret.isNull
        /\ last.call.ret.len = last.source.len

\* C5: no encode or decode call writes into a result array that failed to
\* allocate, and none ends with an exception pending: a failure shows only
\* as the null result.
C5_SentinelOnly ==
    last.op \in {"encode", "decode"} =>
        /\ ~last.call.wroteNull
        /\ ~last.call.excPending
        /\ last.call.newFailed => (last.call.returned /\ last.call.ret.isNull)

\* The result of a successful encode: exactly the codec's n bytes, 0 < n <=
\* 1276, the first n of the output buffer.
EncodeResultExact ==
    /\ ~last.call.ret.isNull
    /\ last.call.encoded > 0
    /\ last.call.encoded <= maxDataBytes
    /\ ByteLen(last.call.ret.elems) = last.call.encoded
    /\ last.call.ret.elems = Take(last.call.out, last.call.encoded)
    /\ ByteLen(last.call.out) = maxDataBytes

\* C6 as stated: encode returns null if the handle is null, the frame is
\* empty or the codec reports a result <= 0; otherwise it returns exactly the
\* first n bytes of the output buffer.
C6_EncodeNullOrExact ==
    EncodeReturned =>
        IF \/ last.nullHandle
           \/ last.len = 0
           \/ (last.call.codecCalled /\ last.call.encoded <= 0)
        THEN last.call.ret.isNull
        ELSE EncodeResultExact

\* C6 amended: encode also returns null when the frame cannot be pinned and
\* when the result array cannot be allocated; in every other case it returns
\* exactly the first n bytes of the output buffer.
C6_EncodeNullOrExactAmended ==
    EncodeReturned =>
        IF \/ last.nullHandle
           \/ last.len = 0
           \/ last.pin # "ok"
           \/ (last.call.codecCalled /\ last.call.encoded <= 0)
           \/ last.call.newFailed
        THEN last.call.ret.isNull
        ELSE EncodeResultExact

C6_Witness ==
    /\ EncodeReturned /\ ~last.call.ret.isNull
    /\ last.call.encoded < maxDataBytes

\* The result of a successful decode: decoded samples per channel times
\* channels, within the scratch buffer, and the whole scratch buffer only when
\* maxSamples per channel were decoded.
DecodeResultExact ==
    /\ ~last.call.ret.isNull
    /\ last.call.decoded > 0
    /\ last.call.ret.len = last.call.decoded * last.channels
    /\ last.call.ret.len <= maxSamples * last.channels
    /\ last.call.scratch = maxSamples * last.channels
    /\ last.call.ret.len = last.call.scratch => last.call.decoded = maxSamples

\* C7 as stated: decode returns null if the packet is empty (or absent), the
\* decoder cannot be instantiated or the codec reports <= 0 samples;
\* otherwise it returns exactly decoded x channels samples.
C7_DecodeNullOrExact ==
    last.op = "decode" =>
        IF \/ last.isNull
           \/ last.inLen = 0
           \/ last.call.decFailed
           \/ (last.call.codecCalled /\ last.call.decoded <= 0)
        THEN last.call.ret.isNull
        ELSE DecodeResultExact

\* C7 amended: decode also returns null when the packet cannot be pinned and
\* when the result array cannot be allocated; in every other case it returns
\* exactly decoded x channels samples.
C7_DecodeNullOrExactAmended ==
    last.op = "decode" =>
        IF \/ last.isNull
           \/ last.inLen = 0
           \/ last.pin # "ok"
           \/ last.call.decFailed
           \/ (last.call.codecCalled /\ last.call.decoded <= 0)
           \/ last.call.newFailed
        THEN last.call.ret.isNull
        ELSE DecodeResultExact

C7_Witness ==
    /\ last.op = "decode" /\ ~last.call.ret.isNull
    /\ last.channels = 2 /\ last.call.decoded < maxSamples

\* C8: as long as no handle is passed to destroy_encoder twice, the live
\* native encoders are exactly the handles returned by create_encoder and not
\* yet passed to destroy_encoder, so none is live once each was destroyed;
\* destroy_encoder with the zero handle changes nothing; a create_encoder
\* call that returns 0 leaves the set of live encoders as it was.
C8_Paired == ~doubleFree => Live = owned

C8_Step ==
    /\ (last'.op = "destroy" /\ last'.encPtr = 0) =>
          UNCHANGED <<heap, owned, stale, doubleFree, decoders, pinned, crashed>>
    /\ (last'.op = "create" /\ last'.ret = 0) =>
          ({a \in Addrs : heap'[a].st = "live"} = Live /\ owned' = owned)

C8_LifecyclePairing == [](C8_Paired) /\ [][C8_Step]_vars

C8_Witness ==
    /\ last.op = "destroy" /\ last.encPtr # 0 /\ ~last.dangling
    /\ ~doubleFree /\ owned = {} /\ stale # {}

\* C9: every array pinned by encode or decode is released exactly once before
\* the call returns, and never when the pin failed; no pinned buffer is
\* outstanding between calls.
C9_PinsReleased ==
    /\ ~crashed => pinned = 0
    /\ (last.op \in {"encode", "decode"} /\ last.call.returned) =>
          /\ last.call.releases = last.call.pins
          /\ last.pin # "ok" => (last.call.pins = 0 /\ last.call.releases = 0)

C9_Witness ==
    /\ last.op = "decode" /\ last.call.decFailed
    /\ last.call.pins = 1 /\ last.call.releases = 1

\* C10: the samples the codec reads for an encode call on a live encoder,
\* frame_size x channels of the encoder, never exceed the length of the
\* caller's PCM array.
C10_EncodeReadsWithinFrame ==
    (last.op = "encode" /\ last.call.codecCalled /\ ~last.dangling
        /\ LegalFrameSize(last.call.frameSize, last.Fs)) =>
        /\ last.call.read = last.call.frameSize * last.channels
        /\ last.call.read <= last.len

====
